---- MODULE Spec2Model ----
(***************************************************************************)
(* A model of the multi-dimensional array of rust-postgres-array:          *)
(* Array (src/src/array.rs), ArrayBase and its slices (src/src/base.rs,    *)
(* src/src/lib.rs).  An array is a record [dims, data]; a Dimension is a   *)
(* record [len, lower_bound].  Operations that panic in the code return    *)
(* a result with ok = FALSE and leave the receiver as the code leaves it.  *)
(***************************************************************************)
EXTENDS Integers, Sequences, FiniteSets, TLC

VARIABLES arr, last

vars == <<arr, last>>

(***************************************************************************)
(* Bounds of the model.                                                    *)
(***************************************************************************)
\* longest vector handed to from_vec / from_parts
MaxVec == 2
\* longest dimension list handed to from_parts
MaxInDims == 2
\* wrap is not called on an array that already has MaxDims dimensions
MaxDims == 3
\* push is not called when the result would hold more than MaxData elements
MaxData == 4
\* push is not called on an array whose outer dimension is MaxOuter long
MaxOuter == 2

\* the elements are opaque to the array: two values tell them apart
Elems == {1, 2}

Vecs == UNION {[1 .. n -> Elems] : n \in 0 .. MaxVec}

\* lower bounds handed to from_vec and wrap: negative, zero and positive
LowerBounds == {-1, 0, 1}

(***************************************************************************)
(* i32 arithmetic.  TLC's integers are themselves 32 bits wide, so the     *)
(* wrapped product is computed on 8- and 16-bit limbs.                     *)
(***************************************************************************)
I32Max == 2147483647

I32Min == (-I32Max) - 1

Limb16 == 2 ^ 16

Limb8 == 2 ^ 8

\* (x * y) mod 2^16 for x, y in 0 .. 65535
MulLow16(x, y) ==
    LET x0 == x % Limb8
        x1 == x \div Limb8
        y0 == y % Limb8
        y1 == y \div Limb8
    IN  (x0 * y0 + ((x1 * y0 + x0 * y1) % Limb8) * Limb8) % Limb16

\* floor((x * y) / 2^16) for x, y in 0 .. 65535
MulHigh16(x, y) ==
    LET x0 == x % Limb8
        x1 == x \div Limb8
        y0 == y % Limb8
        y1 == y \div Limb8
        t0 == x0 * y0
        t1 == x1 * y0 + x0 * y1
        t2 == x1 * y1
        carry == (t0 + (t1 % Limb8) * Limb8) \div Limb16
    IN  t2 + (t1 \div Limb8) + carry

\* a * b as the two's-complement i32 the hardware leaves (i32::wrapping_mul)
wrapping_mul(a, b) ==
    LET al == a % Limb16
        ah == (a \div Limb16) % Limb16
        bl == b % Limb16
        bh == (b \div Limb16) % Limb16
        lo == MulLow16(al, bl)
        hi == (MulHigh16(al, bl) + MulLow16(ah, bl) + MulLow16(al, bh)) % Limb16
    IN  IF hi >= Limb16 \div 2 THEN (hi - Limb16) * Limb16 + lo
                               ELSE hi * Limb16 + lo

Abs(x) == IF x < 0 THEN -x ELSE x

\* whether the mathematical product a * b lies outside i32
mul_overflows(a, b) ==
    IF a = 0 \/ b = 0 THEN FALSE
    ELSE IF a = I32Min THEN b # 1
    ELSE IF b = I32Min THEN a # 1
    ELSE IF (a < 0) = (b < 0)
         THEN Abs(b) > I32Max \div Abs(a)
         ELSE /\ Abs(b) > I32Max \div Abs(a)
              /\ ~ (wrapping_mul(a, b) = I32Min
                    /\ Abs(b) = (I32Max \div Abs(a)) + 1
                    /\ I32Max % Abs(a) = Abs(a) - 1)

\* `a * b` on i32: with overflow checks (debug builds) an overflow panics,
\* without them (release builds) the product wraps
i32_mul(a, b, overflow_checks) ==
    IF mul_overflows(a, b) /\ overflow_checks
    THEN [ok |-> FALSE, val |-> 0]
    ELSE [ok |-> TRUE, val |-> wrapping_mul(a, b)]

\* a + b as the two's-complement i32 the hardware leaves (i32::wrapping_add)
wrapping_add(a, b) ==
    IF a >= 0 /\ b >= 0 /\ a > I32Max - b
    THEN ((a - I32Max) - 1) + ((b - I32Max) - 1)
    ELSE IF a < 0 /\ b < 0 /\ a < I32Min - b
    THEN ((a + I32Max) + 1) + ((b + I32Max) + 1)
    ELSE a + b

\* whether the mathematical sum a + b lies outside i32
add_overflows(a, b) ==
    \/ a >= 0 /\ b >= 0 /\ a > I32Max - b
    \/ a < 0 /\ b < 0 /\ a < I32Min - b

\* `a + b` on i32, as i32_mul
i32_add(a, b, overflow_checks) ==
    IF add_overflows(a, b) /\ overflow_checks
    THEN [ok |-> FALSE, val |-> 0]
    ELSE [ok |-> TRUE, val |-> wrapping_add(a, b)]

\* whether the mathematical difference a - b lies outside 32 bits
sub_overflows(a, b) ==
    \/ b < 0 /\ a > I32Max + b
    \/ b > 0 /\ a < I32Min + b

\* a - b as the two's-complement value the hardware leaves (wrapping_sub)
wrapping_sub(a, b) ==
    IF b < 0 /\ a > I32Max + b
    THEN ((a - I32Max) - 1) - ((b + I32Max) + 1)
    ELSE IF b > 0 /\ a < I32Min + b
    THEN ((a + I32Max) + 1) - ((b - I32Max) - 1)
    ELSE a - b

\* `a - b` on isize, at the width of a 32-bit target: a panic when the
\* difference overflows and the build checks overflow, the wrapped
\* difference otherwise
isize_sub(a, b, overflow_checks) ==
    IF sub_overflows(a, b) /\ overflow_checks
    THEN [ok |-> FALSE, val |-> 0]
    ELSE [ok |-> TRUE, val |-> wrapping_sub(a, b)]

\* `n as i32` for a usize n: the low 32 bits, read as two's complement
usize_as_i32(n) == IF n > I32Max THEN ((n - I32Max) - I32Max) - 2 ELSE n

(***************************************************************************)
(* Dimension and Array.                                                    *)
(***************************************************************************)
Dimension(len, lower_bound) == [len |-> len, lower_bound |-> lower_bound]

Array(dims, data) == [dims |-> dims, data |-> data]

Panic == [ok |-> FALSE, arr |-> Array(<<>>, <<>>)]

Ok(a) == [ok |-> TRUE, arr |-> a]

\* dimensions.iter().fold(1, |acc, i| acc * i.len), from position k on
RECURSIVE fold_len(_, _, _, _)
fold_len(dimensions, k, acc, overflow_checks) ==
    IF k > Len(dimensions) THEN [ok |-> TRUE, val |-> acc]
    ELSE LET m == i32_mul(acc, dimensions[k].len, overflow_checks)
         IN  IF m.ok THEN fold_len(dimensions, k + 1, m.val, overflow_checks)
                     ELSE m

\* a faulty from_parts: it stores the elements last to first
from_parts_reversing(data, dimensions, overflow_checks) ==
    LET n == Len(data)
        stored == [k \in 1 .. n |-> data[n + 1 - k]]
    IN  IF data = <<>> /\ dimensions = <<>>
        THEN Ok(Array(dimensions, stored))
        ELSE LET product == fold_len(dimensions, 1, 1, overflow_checks)
             IN  IF product.ok /\ usize_as_i32(Len(data)) = product.val
                 THEN Ok(Array(dimensions, stored))
                 ELSE Panic

\* Array::from_parts: the assertion, then the struct
from_parts(data, dimensions, overflow_checks) ==
    IF data = <<>> /\ dimensions = <<>>
    THEN Ok(Array(dimensions, data))
    ELSE LET product == fold_len(dimensions, 1, 1, overflow_checks)
         IN  IF product.ok /\ usize_as_i32(Len(data)) = product.val
             THEN Ok(Array(dimensions, data))
             ELSE Panic

\* Array::from_vec
from_vec(data, lower_bound) ==
    Array(<<Dimension(usize_as_i32(Len(data)), lower_bound)>>, data)

\* Vec::insert(index, element), index counted from 0
insert(v, index, element) ==
    SubSeq(v, 1, index) \o <<element>> \o SubSeq(v, index + 1, Len(v))

\* a faulty wrap: the new dimension goes last, not first
wrap_appending(a, lower_bound) ==
    Array(Append(a.dims, Dimension(1, lower_bound)), a.data)

\* Array::wrap
wrap(a, lower_bound) ==
    Array(insert(a.dims, 0, Dimension(1, lower_bound)), a.data)

\* the first assertion of push: self.dims.len() - 1 == other.dims.len().
\* On an empty self.dims the usize subtraction panics (overflow checks) or
\* wraps to usize::MAX, which no Vec length equals: the assertion fails.
push_count_ok(a, other) ==
    /\ Len(a.dims) # 0
    /\ Len(a.dims) - 1 = Len(other.dims)

\* a faulty loop of push: it compares the lengths and not the lower bounds
push_dims_ok_by_len(a, other) ==
    \A k \in 1 .. Len(other.dims) :
        k + 1 <= Len(a.dims) => a.dims[k + 1].len = other.dims[k].len

\* the loop of push: self.dims.iter().skip(1).zip(other.dims.iter())
push_dims_ok(a, other) ==
    \A k \in 1 .. Len(other.dims) :
        k + 1 <= Len(a.dims) => a.dims[k + 1] = other.dims[k]

\* a faulty push: the elements of `other` go before those of self
push_prepending(a, other) ==
    IF push_count_ok(a, other) /\ push_dims_ok(a, other)
    THEN Ok(Array([a.dims EXCEPT ![1].len = @ + 1], other.data \o a.data))
    ELSE [ok |-> FALSE, arr |-> a]

\* Array::push: both assertions come before the first assignment
push(a, other) ==
    IF push_count_ok(a, other) /\ push_dims_ok(a, other)
    THEN Ok(Array([a.dims EXCEPT ![1].len = @ + 1], a.data \o other.data))
    ELSE [ok |-> FALSE, arr |-> a]

\* Array::dimensions
dimensions(a) == a.dims

\* slice::Iter::next called until it returns None, from position k on
RECURSIVE iter_from(_, _)
iter_from(v, k) == IF k > Len(v) THEN <<>> ELSE <<v[k]>> \o iter_from(v, k + 1)

\* Array::iter, collected
iter(a) == iter_from(a.data, 1)

\* Array::into_inner
into_inner(a) == a.data

(***************************************************************************)
(* Indexing an Array (src/src/array.rs).                                   *)
(***************************************************************************)
Fail == [ok |-> FALSE, val |-> 0]

Val(v) == [ok |-> TRUE, val |-> v]

\* Dimension::shift, which Array::shift_idx calls; its definition is not in
\* src/, so it follows the written specification: index - lower_bound, out
\* of bounds when the index is below the lower bound, when the subtraction
\* overflows, or when the offset is not below the length
shift(dim, idx) ==
    IF idx < dim.lower_bound THEN Fail
    ELSE IF sub_overflows(idx, dim.lower_bound) THEN Fail
    ELSE IF idx - dim.lower_bound >= dim.len THEN Fail
    ELSE Val(idx - dim.lower_bound)

\* a faulty fold: the stride multiplies the offset of the deeper level and
\* the shifted index is added to it, (shifted + stride * acc, dim.len * stride)
RECURSIVE shift_idx_fold_scaling_acc(_, _, _, _, _, _)
shift_idx_fold_scaling_acc(dims, indices, k, acc, stride, overflow_checks) ==
    IF k = 0 THEN Val(acc)
    ELSE LET shifted == shift(dims[k], indices[k])
             term == i32_mul(stride, acc, overflow_checks)
             sum == i32_add(shifted.val, term.val, overflow_checks)
             next == i32_mul(dims[k].len, stride, overflow_checks)
         IN  IF shifted.ok /\ term.ok /\ sum.ok /\ next.ok
             THEN shift_idx_fold_scaling_acc(dims, indices, k - 1, sum.val,
                                            next.val, overflow_checks)
             ELSE Fail

\* the fold of Array::shift_idx over dims.iter().zip(indices).rev(), from
\* dimension k down to the first: (acc + shifted * stride, dim.len * stride)
RECURSIVE shift_idx_fold(_, _, _, _, _, _)
shift_idx_fold(dims, indices, k, acc, stride, overflow_checks) ==
    IF k = 0 THEN Val(acc)
    ELSE LET shifted == shift(dims[k], indices[k])
             term == i32_mul(shifted.val, stride, overflow_checks)
             sum == i32_add(acc, term.val, overflow_checks)
             next == i32_mul(dims[k].len, stride, overflow_checks)
         IN  IF shifted.ok /\ term.ok /\ sum.ok /\ next.ok
             THEN shift_idx_fold(dims, indices, k - 1, sum.val, next.val,
                                 overflow_checks)
             ELSE Fail

\* Array::shift_idx
shift_idx(a, indices, overflow_checks) ==
    IF Len(a.dims) # Len(indices) THEN Fail
    ELSE shift_idx_fold(a.dims, indices, Len(a.dims), 0, 1, overflow_checks)

\* Vec indexing, v[i as usize] for an i32 i: a negative i becomes a huge
\* usize, which is out of range like any i >= v.len()
vec_index(v, i) == IF i >= 0 /\ i < Len(v) THEN Val(v[i + 1]) ELSE Fail

\* Index::index for Array: &self.data[idx.index(self) as usize]
index(a, indices, overflow_checks) ==
    LET idx == shift_idx(a, indices, overflow_checks)
    IN  IF idx.ok THEN vec_index(a.data, idx.val) ELSE Fail

(***************************************************************************)
(* ArrayBase and its slices (src/src/base.rs, src/src/lib.rs).  A slice    *)
(* is the base array and the shifted index of every slice() on the way to  *)
(* it, outermost first; the base itself has the empty path.                *)
(***************************************************************************)
View(base, path) == [base |-> base, path |-> path]

Parent(view) == View(view.base, SubSeq(view.path, 1, Len(view.path) - 1))

\* dimension_info: the base's info, or &info[1..] of the parent's
RECURSIVE dimension_info(_)
dimension_info(view) ==
    IF view.path = <<>> THEN view.base.dims
    ELSE LET info == dimension_info(Parent(view))
         IN  SubSeq(info, 2, Len(info))

\* a faulty shift_idx: the lower bound is added, not subtracted
InternalArray_shift_idx_adding(view, idx, overflow_checks) ==
    LET info == dimension_info(view)
    IN  IF info = <<>> THEN Fail
        ELSE LET shifted_idx == i32_add(idx, info[1].lower_bound,
                                        overflow_checks)
             IN  IF /\ shifted_idx.ok
                    /\ shifted_idx.val >= 0
                    /\ shifted_idx.val < info[1].len
                 THEN Val(shifted_idx.val)
                 ELSE Fail

\* a faulty shift_idx: the shifted index is not compared with the length
InternalArray_shift_idx_unbounded(view, idx, overflow_checks) ==
    LET info == dimension_info(view)
    IN  IF info = <<>> THEN Fail
        ELSE LET shifted_idx == isize_sub(idx, info[1].lower_bound,
                                          overflow_checks)
             IN  IF shifted_idx.ok /\ shifted_idx.val >= 0
                 THEN Val(shifted_idx.val)
                 ELSE Fail

\* InternalArray::shift_idx; dimension_info()[0] of an array with no
\* dimension is itself out of bounds.  The subtraction is a plain `-` on
\* isize: nothing in the function looks at its overflow, so it panics in a
\* build that checks overflow and wraps in one that does not, and the
\* assertion then sees the wrapped difference
InternalArray_shift_idx(view, idx, overflow_checks) ==
    LET info == dimension_info(view)
    IN  IF info = <<>> THEN Fail
        ELSE LET shifted_idx == isize_sub(idx, info[1].lower_bound,
                                          overflow_checks)
             IN  IF /\ shifted_idx.ok
                    /\ shifted_idx.val >= 0
                    /\ shifted_idx.val < info[1].len
                 THEN Val(shifted_idx.val)
                 ELSE Fail

\* slice, of ArrayBase and of ArraySlice: the view one level down, or none
slice(view, idx, overflow_checks) ==
    IF Len(dimension_info(view)) = 1 THEN [ok |-> FALSE, view |-> view]
    ELSE LET shifted == InternalArray_shift_idx(view, idx, overflow_checks)
         IN  IF shifted.ok
             THEN [ok |-> TRUE, view |-> View(view.base, Append(view.path, shifted.val))]
             ELSE [ok |-> FALSE, view |-> view]

\* raw_get: a slice scales by its own first length and hands on to its
\* parent; the base reads data[idx]
RECURSIVE raw_get(_, _, _)
raw_get(view, idx, size) ==
    IF view.path = <<>> THEN vec_index(view.base.data, idx)
    ELSE LET size2 == size * dimension_info(view)[1].len
             idx2 == size2 * view.path[Len(view.path)] + idx
         IN  raw_get(Parent(view), idx2, size2)

\* a faulty get: the number of dimensions left is not looked at
get_any_dims(view, idx, overflow_checks) ==
    LET shifted == InternalArray_shift_idx(view, idx, overflow_checks)
    IN  IF shifted.ok THEN raw_get(view, shifted.val, 1) ELSE Fail

\* get, of ArrayBase and of ArraySlice
get(view, idx, overflow_checks) ==
    IF Len(dimension_info(view)) # 1 THEN Fail
    ELSE LET shifted == InternalArray_shift_idx(view, idx, overflow_checks)
         IN  IF shifted.ok THEN raw_get(view, shifted.val, 1) ELSE Fail

\* slice(i_1).slice(i_2)... from `view` on, for the indices of chain from k
RECURSIVE slice_chain(_, _, _, _)
slice_chain(view, chain, k, overflow_checks) ==
    IF k > Len(chain) THEN [ok |-> TRUE, view |-> view]
    ELSE LET s == slice(view, chain[k], overflow_checks)
         IN  IF s.ok THEN slice_chain(s.view, chain, k + 1, overflow_checks)
             ELSE s

\* a.slice(i_1)...slice(i_{n-1}).get(i_n) for chain = <<i_1, ..., i_n>>
slice_get(a, chain, overflow_checks) ==
    LET s == slice_chain(View(a, <<>>), SubSeq(chain, 1, Len(chain) - 1), 1,
                         overflow_checks)
    IN  IF s.ok THEN get(s.view, chain[Len(chain)], overflow_checks) ELSE Fail

\* slice_mut, of ArrayBase and of MutArraySlice: the view one level down
slice_mut(view, idx, overflow_checks) ==
    IF Len(dimension_info(view)) = 1 THEN [ok |-> FALSE, view |-> view]
    ELSE LET shifted == InternalArray_shift_idx(view, idx, overflow_checks)
         IN  IF shifted.ok
             THEN [ok |-> TRUE,
                   view |-> View(view.base, Append(view.path, shifted.val))]
             ELSE [ok |-> FALSE, view |-> view]

\* raw_get_mut: as raw_get, and the base hands out &mut data[idx]; the
\* value is the position in data the reference points at
RECURSIVE raw_get_mut(_, _, _)
raw_get_mut(view, idx, size) ==
    IF view.path = <<>>
    THEN IF idx >= 0 /\ idx < Len(view.base.data) THEN Val(idx) ELSE Fail
    ELSE LET size2 == size * dimension_info(view)[1].len
             idx2 == size2 * view.path[Len(view.path)] + idx
         IN  raw_get_mut(Parent(view), idx2, size2)

\* get_mut, of ArrayBase and of MutArraySlice
get_mut(view, idx, overflow_checks) ==
    IF Len(dimension_info(view)) # 1 THEN Fail
    ELSE LET shifted == InternalArray_shift_idx(view, idx, overflow_checks)
         IN  IF shifted.ok THEN raw_get_mut(view, shifted.val, 1) ELSE Fail

\* slice_mut(i_1).slice_mut(i_2)... from `view` on
RECURSIVE slice_mut_chain(_, _, _, _)
slice_mut_chain(view, chain, k, overflow_checks) ==
    IF k > Len(chain) THEN [ok |-> TRUE, view |-> view]
    ELSE LET s == slice_mut(view, chain[k], overflow_checks)
         IN  IF s.ok
             THEN slice_mut_chain(s.view, chain, k + 1, overflow_checks)
             ELSE s

\* *a.slice_mut(i_1)...slice_mut(i_{n-1}).get_mut(i_n) = v: the array
\* after the write, or a panic
slice_get_mut(a, chain, v, overflow_checks) ==
    LET s == slice_mut_chain(View(a, <<>>), SubSeq(chain, 1, Len(chain) - 1),
                             1, overflow_checks)
        at == IF s.ok
              THEN get_mut(s.view, chain[Len(chain)], overflow_checks)
              ELSE Fail
    IN  IF at.ok
        THEN Ok(Array(a.dims, [a.data EXCEPT ![at.val + 1] = v]))
        ELSE [ok |-> FALSE, arr |-> a]

(***************************************************************************)
(* The wire codec (src/src/impls.rs, src/src/impls/mod.rs).  A buffer is a *)
(* sequence of bytes; a reader is a buffer and the number of bytes read    *)
(* from it so far.  The elements of an Array<Option<T>> are None or one of *)
(* Elems.  The element encoder and the element decoder belong to the       *)
(* caller: the model draws them from a few behaviours.                     *)
(***************************************************************************)
None == 0

OptElems == Elems \cup {None}

\* write_i32::<BigEndian>(n), and write_u32 of `n as u32`: the same four
\* bytes, the two's complement of n, most significant first
write_be(n) ==
    LET m == IF n < 0 THEN (n + I32Max) + 1 ELSE n
        top == (m \div 2 ^ 24) + (IF n < 0 THEN 128 ELSE 0)
    IN  <<top, (m \div 2 ^ 16) % 256, (m \div 2 ^ 8) % 256, m % 256>>

\* the outcome of a read: the value, and the reader position after it
ReadErr(kind) == [ok |-> FALSE, err |-> kind, val |-> 0, pos |-> 0]

ReadOk(v, pos) == [ok |-> TRUE, err |-> "", val |-> v, pos |-> pos]

\* read_i32::<BigEndian>: read_exact of four bytes fails on a short buffer
read_i32(buf, pos) ==
    IF Len(buf) - pos < 4 THEN ReadErr("io")
    ELSE LET b0 == buf[pos + 1]
             hi == IF b0 >= 128 THEN b0 - 256 ELSE b0
         IN  ReadOk(hi * 2 ^ 24 + buf[pos + 2] * 2 ^ 16 + buf[pos + 3] * 2 ^ 8
                        + buf[pos + 4], pos + 4)

\* read_u32::<BigEndian>, for the values below 2^31 that the buffers of
\* the model hold
read_u32(buf, pos) ==
    IF Len(buf) - pos < 4 THEN ReadErr("io")
    ELSE ReadOk(buf[pos + 1] * 2 ^ 24 + buf[pos + 2] * 2 ^ 16
                    + buf[pos + 3] * 2 ^ 8 + buf[pos + 4], pos + 4)

\* the bytes an element encoder of kind `kind` writes for a present value:
\* "byte" writes the value as one byte, "var" writes v bytes for the value v
element_bytes(kind, v) ==
    IF kind = "byte" THEN <<v>> ELSE [k \in 1 .. v |-> v]

\* v.to_sql(element_type, &mut inner_buf, info) of the element: IsNull::Yes
\* for None, an error for the values the encoder refuses, the bytes otherwise
element_to_sql(enc, v) ==
    IF v = None THEN [ok |-> TRUE, null |-> TRUE, bytes |-> <<>>]
    ELSE IF v \in enc.fails THEN [ok |-> FALSE, null |-> FALSE, bytes |-> <<>>]
    ELSE [ok |-> TRUE, null |-> FALSE, bytes |-> element_bytes(enc.kind, v)]

\* FromSql::from_sql of the element on the bytes it is handed: "exact"
\* reads one byte with read_exact and returns it, "to_end" reads all it is
\* handed and returns their number
element_from_sql(dec, handed) ==
    IF dec = "exact"
    THEN IF Len(handed) < 1 THEN [ok |-> FALSE, val |-> None, read |-> 0]
         ELSE [ok |-> TRUE, val |-> handed[1], read |-> 1]
    ELSE IF Len(handed) \in Elems
         THEN [ok |-> TRUE, val |-> Len(handed), read |-> Len(handed)]
         ELSE [ok |-> FALSE, val |-> None, read |-> Len(handed)]

\* the outcome of encoding: the bytes written, the error otherwise, and
\* whether the element encoder returned an error on the way
Encoded(bytes, refused) ==
    [ok |-> TRUE, err |-> "", bytes |-> bytes, refused |-> refused]

EncodeErr(kind, refused) ==
    [ok |-> FALSE, err |-> kind, bytes |-> <<>>, refused |-> refused]

\* a faulty header: the has-null flag says whether an element is None
to_sql_header_by_content(a, oid) ==
    write_be(Len(dimensions(a)))
        \o write_be(IF \E k \in 1 .. Len(a.data) : a.data[k] = None
                    THEN 1 ELSE 0)
        \o write_be(oid)

\* the three header fields: the number of dimensions, the has-null flag,
\* the oid of the element type
to_sql_header(a, oid) ==
    write_be(Len(dimensions(a))) \o write_be(1) \o write_be(oid)

\* for info in self.dimensions(): len, then lower_bound; from dimension k on
RECURSIVE to_sql_dimensions(_, _)
to_sql_dimensions(dims, k) ==
    IF k > Len(dims) THEN <<>>
    ELSE write_be(dims[k].len) \o write_be(dims[k].lower_bound)
             \o to_sql_dimensions(dims, k + 1)

\* for v in self: the entry of each element, from element k on, after the
\* bytes `out` already written; `room` is the number of bytes the writer
\* takes before its write fails
RECURSIVE to_sql_elements(_, _, _, _, _)
to_sql_elements(data, k, out, enc, room) ==
    IF k > Len(data) THEN Encoded(out, FALSE)
    ELSE LET e == element_to_sql(enc, data[k])
             entry == IF e.null THEN write_be(-1)
                                ELSE write_be(Len(e.bytes)) \o e.bytes
         IN  IF ~ e.ok THEN EncodeErr("element", TRUE)
             ELSE IF Len(out) + Len(entry) > room THEN EncodeErr("write", FALSE)
             ELSE to_sql_elements(data, k + 1, out \o entry, enc, room)

\* ToSql::to_sql for Array<T>, the type being an array type
to_sql(a, enc, oid, room) ==
    LET head == to_sql_header(a, oid) \o to_sql_dimensions(dimensions(a), 1)
    IN  IF Len(head) > room THEN EncodeErr("write", FALSE)
        ELSE to_sql_elements(iter(a), 1, head, enc, room)

\* the element loop of raw_to_array: every result is dropped (let _ = ...),
\* that of the element encoder included
RECURSIVE raw_to_array_elements(_, _, _)
raw_to_array_elements(data, k, enc) ==
    IF k > Len(data) THEN <<>>
    ELSE LET e == element_to_sql(enc, data[k])
             entry == IF data[k] = None THEN write_be(-1)
                      ELSE write_be(Len(e.bytes)) \o e.bytes
         IN  entry \o raw_to_array_elements(data, k + 1, enc)

\* raw_to_array: it returns the buffer, never an error
raw_to_array(a, enc, oid) ==
    Encoded(write_be(Len(a.dims)) \o write_be(1) \o write_be(oid)
                \o to_sql_dimensions(a.dims, 1)
                \o raw_to_array_elements(a.data, 1, enc),
            \E k \in 1 .. Len(a.data) : ~ element_to_sql(enc, a.data[k]).ok)

\* the outcome of decoding: the array, or the error; the reader position;
\* the bytes handed to the element decoder, element by element
Decoded(a, pos, handed) ==
    [ok |-> TRUE, err |-> "", arr |-> a, pos |-> pos, handed |-> handed]

DecodeErr(kind, pos, handed) ==
    [ok |-> FALSE, err |-> kind, arr |-> Array(<<>>, <<>>), pos |-> pos,
     handed |-> handed]

\* the loop over 0..ndim: len, then lower_bound, n dimensions more
RECURSIVE from_sql_dimensions(_, _, _, _)
from_sql_dimensions(buf, pos, n, dim_info) ==
    IF n = 0 THEN [ok |-> TRUE, dims |-> dim_info, pos |-> pos]
    ELSE LET len == read_u32(buf, pos)
             lower_bound == read_i32(buf, len.pos)
         IN  IF len.ok /\ lower_bound.ok
             THEN from_sql_dimensions(buf, lower_bound.pos, n - 1,
                      Append(dim_info, Dimension(len.val, lower_bound.val)))
             ELSE [ok |-> FALSE, dims |-> dim_info, pos |-> Len(buf)]

\* dim_info.iter().fold(1, |product, info| product * info.len), from k on
RECURSIVE fold_product(_, _, _)
fold_product(dim_info, k, product) ==
    IF k > Len(dim_info) THEN product
    ELSE fold_product(dim_info, k + 1, product * dim_info[k].len)

\* a faulty nele: the product of no lengths, 1, for an array without
\* dimensions
nele_as_product(dim_info) == fold_product(dim_info, 1, 1)

\* nele: 0 without dimensions, the product of the lengths otherwise
nele(dim_info) ==
    IF Len(dim_info) = 0 THEN 0 ELSE fold_product(dim_info, 1, 1)

\* ArrayBase::from_raw, and the from_parts of the Array of src/src/impls.rs:
\* the lengths are usize, of which the model holds small values only
from_raw(data, info) ==
    IF (data = <<>> /\ info = <<>>) \/ Len(data) = fold_product(info, 1, 1)
    THEN Ok(Array(info, data))
    ELSE Panic

\* a faulty take: the reader is not limited to len bytes
take_rest(buf, pos, len) == SubSeq(buf, pos + 1, Len(buf))

\* raw.take(len): the reader that yields the next len bytes of raw, or
\* as many as raw has left
take(buf, pos, len) ==
    SubSeq(buf, pos + 1, pos + (IF len < Len(buf) - pos THEN len
                                                      ELSE Len(buf) - pos))

\* a faulty limit: the bytes left of those the reader could yield, not of
\* those declared
limit_of_handed(len, handed, read) == Len(handed) - read

\* limit.limit() after the element decoder has read `read` bytes
limit(len, handed, read) == len - read

\* the loop over 0..nele, n elements more; `mismatch` is the error returned
\* when the element decoder leaves bytes unread
RECURSIVE from_sql_elements(_, _, _, _, _, _, _)
from_sql_elements(buf, pos, n, elements, handed, dec, mismatch) ==
    IF n = 0 THEN [ok |-> TRUE, err |-> "", elements |-> elements, pos |-> pos,
                   handed |-> handed]
    ELSE LET len == read_i32(buf, pos)
             h == take(buf, len.pos, len.val)
             e == element_from_sql(dec, h)
             failed(kind, at, hs) ==
                 [ok |-> FALSE, err |-> kind, elements |-> elements, pos |-> at,
                  handed |-> hs]
         IN  IF ~ len.ok THEN failed("io", Len(buf), handed)
             ELSE IF len.val < 0
             THEN from_sql_elements(buf, len.pos, n - 1, Append(elements, None),
                                    handed, dec, mismatch)
             ELSE IF ~ e.ok
             THEN failed("element", len.pos + e.read, Append(handed, h))
             ELSE IF limit(len.val, h, e.read) # 0
             THEN failed(mismatch, len.pos + e.read, Append(handed, h))
             ELSE from_sql_elements(buf, len.pos + e.read, n - 1,
                                    Append(elements, e.val), Append(handed, h),
                                    dec, mismatch)

\* a faulty decoder: it believes a has-null flag of 0 and refuses the
\* buffer when an element is null all the same
decode_trusting_has_null(buf, dec, mismatch) ==
    LET ndim == read_u32(buf, 0)
        has_null == read_i32(buf, ndim.pos)
        element_type == read_u32(buf, has_null.pos)
        dim_info == from_sql_dimensions(buf, element_type.pos, ndim.val, <<>>)
        elements == from_sql_elements(buf, dim_info.pos, nele(dim_info.dims),
                                      <<>>, <<>>, dec, mismatch)
        built == from_raw(elements.elements, dim_info.dims)
    IN  IF ~ (ndim.ok /\ has_null.ok /\ element_type.ok /\ dim_info.ok)
        THEN DecodeErr("io", Len(buf), <<>>)
        ELSE IF ~ elements.ok
        THEN DecodeErr(elements.err, elements.pos, elements.handed)
        ELSE IF ~ built.ok
        THEN DecodeErr("panic", elements.pos, elements.handed)
        ELSE IF /\ has_null.val = 0
                /\ \E k \in 1 .. Len(elements.elements) :
                       elements.elements[k] = None
        THEN DecodeErr(mismatch, elements.pos, elements.handed)
        ELSE Decoded(built.arr, elements.pos, elements.handed)

\* the body shared by FromSql::from_sql and RawFromSql::raw_from_sql; the
\* constructor at the end panics when its assertion fails
decode(buf, dec, mismatch) ==
    LET ndim == read_u32(buf, 0)
        has_null == read_i32(buf, ndim.pos)
        element_type == read_u32(buf, has_null.pos)
        dim_info == from_sql_dimensions(buf, element_type.pos, ndim.val, <<>>)
        elements == from_sql_elements(buf, dim_info.pos, nele(dim_info.dims),
                                      <<>>, <<>>, dec, mismatch)
        built == from_raw(elements.elements, dim_info.dims)
    IN  IF ~ (ndim.ok /\ has_null.ok /\ element_type.ok /\ dim_info.ok)
        THEN DecodeErr("io", Len(buf), <<>>)
        ELSE IF ~ elements.ok
        THEN DecodeErr(elements.err, elements.pos, elements.handed)
        ELSE IF ~ built.ok
        THEN DecodeErr("panic", elements.pos, elements.handed)
        ELSE Decoded(built.arr, elements.pos, elements.handed)

\* FromSql::from_sql for Array<Option<T>>, the type being an array type
from_sql(buf, dec) == decode(buf, dec, "conversion")

\* RawFromSql::raw_from_sql for ArrayBase<Option<T>>
raw_from_sql(buf, dec) == decode(buf, dec, "bad data")

(***************************************************************************)
(* Inputs.                                                                 *)
(***************************************************************************)
\* dimension lengths handed to from_parts: negative, zero and small
Lens == {-1, 0, 1, 2}

\* ... and one whose square does not fit i32
WideLens == Lens \cup {65536}

PartsBounds == {0, 1}

DimsOver(lens, n) ==
    UNION {[1 .. m -> {Dimension(l, b) : l \in lens, b \in PartsBounds}] :
              m \in 0 .. n}

DimsInputs == DimsOver(Lens, MaxInDims)

WideDimsInputs == DimsOver(WideLens, MaxInDims)

\* indices handed to an access: any number of them up to MaxDims, each from
\* one below the lower bound of its axis to one past its last index
IdxVals == -2 .. 4

AxisInputs(dim) ==
    (dim.lower_bound - 1)
        .. (dim.lower_bound + (IF dim.len > 0 THEN dim.len ELSE 0))

\* the index lists of length m: position k takes AxisInputs of dimension k,
\* and 0 past the last dimension
IndexLists(a, m) ==
    {indices \in [1 .. m -> IdxVals] :
        \A k \in 1 .. m :
            IF k <= Len(a.dims) THEN indices[k] \in AxisInputs(a.dims[k])
                                ELSE indices[k] = 0}

IndexInputs(a) == UNION {IndexLists(a, m) : m \in 0 .. MaxDims}

\* lower bounds and indices at the ends of the integer range, where the
\* difference of an index and a lower bound leaves the range
WideBounds == {I32Min, -1, 0, 1, I32Max}

WideIdx == {I32Min, I32Min + 1, -1, 0, 1, I32Max - 1, I32Max}

\* one index per dimension, each from WideIdx
WideIndexInputs(a) ==
    IF a.dims = <<>> THEN {} ELSE [1 .. Len(a.dims) -> WideIdx]

\* vectors of elements that may be None
OptVecs == UNION {[1 .. n -> OptElems] : n \in 0 .. MaxVec}

\* the element encoders: the bytes they write, and the values they refuse
ElemEncoders == [kind : {"byte", "var"}, fails : {{}, {2}}]

\* the element decoders
ElemDecoders == {"exact", "to_end"}

\* an element encoder and an element decoder that undo each other
RoundTrips(enc, dec) ==
    /\ enc.fails = {}
    /\ \/ enc.kind = "byte" /\ dec = "exact"
       \/ enc.kind = "var" /\ dec = "to_end"

\* oids of element types: int4 and text
Oids == {23, 25}

\* the oid in the buffers handed to the decoder: int4
WireOids == {23}

\* a writer that takes any number of bytes (a Vec<u8>)
NoLimit == 2 ^ 20

\* what a sender may put in the fields the decoder reads and drops: the
\* has-null flag, and the oid of the element type
HasNullFlags == {0, 1}

\* the length a sender writes for a null element: any negative i32
NullLens == {-1, -2}

\* the entries a sender writes for the elements of data from k on
RECURSIVE sent_elements(_, _, _, _)
sent_elements(data, k, kind, null_len) ==
    IF k > Len(data) THEN <<>>
    ELSE (IF data[k] = None THEN write_be(null_len)
          ELSE write_be(Len(element_bytes(kind, data[k])))
                   \o element_bytes(kind, data[k]))
             \o sent_elements(data, k + 1, kind, null_len)

\* the dimensions a sender writes, from dimension k on
RECURSIVE sent_dimensions(_, _)
sent_dimensions(dims, k) ==
    IF k > Len(dims) THEN <<>>
    ELSE write_be(dims[k].len) \o write_be(dims[k].lower_bound)
             \o sent_dimensions(dims, k + 1)

\* a buffer in the wire format, as a sender other than to_sql may write it
\* for the array `a`
sent(a, kind, has_null, element_type, null_len) ==
    write_be(Len(a.dims)) \o write_be(has_null) \o write_be(element_type)
        \o sent_dimensions(a.dims, 1)
        \o sent_elements(a.data, 1, kind, null_len)

\* the bytes the writer takes: a slice of 24 bytes, or a Vec<u8>
Rooms == {24, NoLimit}

\* arrays handed to push: built by from_vec or from_parts, then wrapped
Rows == {from_vec(v, b) : v \in Vecs, b \in PartsBounds}

OptRows == {from_vec(v, b) : v \in OptVecs, b \in PartsBounds}

PeerBases ==
    Rows \cup {from_parts(v, <<>>, TRUE).arr : v \in {w \in Vecs : Len(w) <= 1}}

Peers == PeerBases \cup {wrap(a, b) : a \in PeerBases, b \in PartsBounds}

(***************************************************************************)
(* The state machine: one array `arr`, and `last`, the record of the last  *)
(* call: its name, its arguments, the array it was called on and whether   *)
(* it returned (ok) or panicked.  A panic ends the thread.  The thread     *)
(* starts with no array and builds one with from_vec or from_parts.        *)
(***************************************************************************)
NoArray == Array(<<>>, <<>>)

\* what a call of the codec adds to the record of a call: the buffer
\* written or read, the complete encoding a buffer read was cut from, the
\* element encoder and decoder, the oid, the room of the writer, the error,
\* whether the element encoder returned an error, the reader position and
\* the bytes handed to the element decoder
NoWire ==
    [bytes |-> <<>>, full |-> <<>>, enc |-> [kind |-> "byte", fails |-> {}],
     dec |-> "exact", oid |-> 0, room |-> 0, err |-> "", refused |-> FALSE,
     pos |-> 0, handed |-> <<>>]

Call(op, ok, pre, data, dims, lb, other) ==
    [op |-> op, ok |-> ok, pre |-> pre, data |-> data, dims |-> dims,
     lb |-> lb, other |-> other, idx |-> <<>>, val |-> 0, wire |-> NoWire]

\* the record of an access: the indices given, and the element returned
Access(op, r, a, indices) ==
    [Call(op, r.ok, a, <<>>, <<>>, 0, NoArray) EXCEPT !.idx = indices,
                                                      !.val = r.val]

\* the thread holds an array and has read nothing from it yet: a read
\* leaves the array as it is, so what follows a read is what follows the
\* call before it, and reads are modelled as the last thing the thread does
Built == last.ok /\ last.op \in {"from_vec", "from_parts", "wrap", "push"}

Running == Built

FromVecOver(vecs, bounds) ==
    /\ last.op = "start"
    /\ \E data \in vecs, lb \in bounds :
        /\ arr' = from_vec(data, lb)
        /\ last' = Call("from_vec", TRUE, NoArray, data, <<>>, lb, NoArray)

FromVec == FromVecOver(Vecs, LowerBounds)

FromVecOpt == FromVecOver(OptVecs, LowerBounds)

FromVecWide == FromVecOver(Vecs, WideBounds)

FromPartsOver(dimsInputs) ==
    /\ last.op = "start"
    /\ \E data \in Vecs, dims \in dimsInputs, overflow_checks \in BOOLEAN :
        LET r == from_parts(data, dims, overflow_checks)
        IN  /\ arr' = r.arr
            /\ last' = Call("from_parts", r.ok, NoArray, data, dims, 0, NoArray)

FromParts == FromPartsOver(DimsInputs)

FromPartsWide == FromPartsOver(WideDimsInputs)

WrapBelow(n) ==
    /\ Running
    /\ Len(arr.dims) < n
    /\ \E lb \in LowerBounds :
        /\ arr' = wrap(arr, lb)
        /\ last' = Call("wrap", TRUE, arr, <<>>, <<>>, lb, NoArray)

PushOver(peers) ==
    /\ Running
    /\ \E other \in peers :
        /\ Len(arr.data) + Len(other.data) <= MaxData
        /\ Len(arr.dims) > 0 => arr.dims[1].len < MaxOuter
        /\ LET r == push(arr, other)
           IN  /\ arr' = r.arr
               /\ last' = Call("push", r.ok, arr, <<>>, <<>>, 0, other)

\* the indices handed to an access: around the axes of the array, or at
\* the ends of the integer range
AccessInputs(a, wide) == IF wide THEN WideIndexInputs(a) ELSE IndexInputs(a)

\* a[indices], on the Array of src/src/array.rs
IndexOver(wide) ==
    /\ Running
    /\ \E indices \in AccessInputs(arr, wide), overflow_checks \in BOOLEAN :
        /\ arr' = arr
        /\ last' = Access("index", index(arr, indices, overflow_checks), arr,
                          indices)

Index == IndexOver(FALSE)

IndexWide == IndexOver(TRUE)

\* indices.index(&a), ArrayIndex for &[i32]: the flat offset of the indices
ShiftIdx ==
    /\ Running
    /\ \E indices \in IndexInputs(arr), overflow_checks \in BOOLEAN :
        /\ arr' = arr
        /\ last' = Access("shift_idx",
                          shift_idx(arr, indices, overflow_checks), arr,
                          indices)

\* ArrayBase holds its lengths as usize
IsArrayBase(a) == \A k \in 1 .. Len(a.dims) : a.dims[k].len >= 0

\* a.slice(i_1)...get(i_n), on the ArrayBase of src/src/base.rs
GetOver(wide) ==
    /\ Running
    /\ IsArrayBase(arr)
    /\ \E chain \in AccessInputs(arr, wide) \ {<<>>},
          overflow_checks \in BOOLEAN :
        /\ arr' = arr
        /\ last' = Access("get", slice_get(arr, chain, overflow_checks), arr,
                          chain)

Get == GetOver(FALSE)

GetWide == GetOver(TRUE)

\* a.slice(i_1)...slice(i_n), on the ArrayBase of src/src/base.rs
SliceOver(wide) ==
    /\ Running
    /\ IsArrayBase(arr)
    /\ \E chain \in AccessInputs(arr, wide) \ {<<>>},
          overflow_checks \in BOOLEAN :
        /\ arr' = arr
        /\ LET s == slice_chain(View(arr, <<>>), chain, 1, overflow_checks)
           IN  last' = [Access("slice", [ok |-> s.ok, val |-> 0], arr, chain)
                           EXCEPT !.dims = IF s.ok THEN dimension_info(s.view)
                                                   ELSE <<>>]

Slice == SliceOver(FALSE)

\* *a.slice_mut(i_1)...get_mut(i_n) = v, on the ArrayBase of
\* src/src/base.rs
GetMut ==
    /\ Running
    /\ IsArrayBase(arr)
    /\ \E chain \in IndexInputs(arr) \ {<<>>}, v \in Elems,
          overflow_checks \in BOOLEAN :
        LET r == slice_get_mut(arr, chain, v, overflow_checks)
        IN  /\ arr' = r.arr
            /\ last' = Access("get_mut", [ok |-> r.ok, val |-> v], arr,
                              chain)

SliceWide == SliceOver(TRUE)

Wrap == WrapBelow(MaxDims)

\* the codec is run on arrays of fewer dimensions
WrapFlat == WrapBelow(MaxDims - 1)

\* ... and so are the accesses at the ends of the integer range
WrapOnce == WrapBelow(2)

Push == PushOver(Peers)

PushOpt == PushOver(OptRows \cup {NoArray})

\* the record of an encoding
Written(op, r, a, enc, oid, room) ==
    [Call(op, r.ok, a, <<>>, <<>>, 0, NoArray) EXCEPT
        !.wire = [NoWire EXCEPT !.bytes = r.bytes, !.enc = enc, !.oid = oid,
                                !.room = room, !.err = r.err,
                                !.refused = r.refused]]

\* a.to_sql(ty, &mut w, info), on the Array of src/src/impls.rs
ToSql ==
    /\ Running
    /\ IsArrayBase(arr)
    /\ \E enc \in ElemEncoders, oid \in Oids, room \in Rooms :
        /\ arr' = arr
        /\ last' = Written("to_sql", to_sql(arr, enc, oid, room), arr, enc,
                           oid, room)

\* raw_to_array(&a, ty), on the ArrayBase of src/src/impls/mod.rs
RawToArray ==
    /\ Running
    /\ IsArrayBase(arr)
    /\ \E enc \in ElemEncoders, oid \in Oids :
        /\ arr' = arr
        /\ last' = Written("raw_to_array", raw_to_array(arr, enc, oid), arr,
                           enc, oid, NoLimit)

\* the record of a decoding
Read(op, r, a, buf, full, enc, dec, oid) ==
    [Call(op, r.ok, a, <<>>, <<>>, 0, NoArray) EXCEPT
        !.wire = [NoWire EXCEPT !.bytes = buf, !.full = full, !.enc = enc,
                                !.dec = dec, !.oid = oid, !.err = r.err,
                                !.pos = r.pos, !.handed = r.handed]]

\* the buffers handed to the decoder: the encoding of the array at hand by
\* an element encoder that refuses nothing, whole or cut short
DecodeOver(op) ==
    /\ Running
    /\ IsArrayBase(arr)
    /\ \E enc \in {e \in ElemEncoders : e.fails = {}}, oid \in WireOids,
          dec \in ElemDecoders :
        LET full == to_sql(arr, enc, oid, NoLimit).bytes
        IN  \E cut \in 0 .. Len(full) :
                LET buf == SubSeq(full, 1, cut)
                    r == IF op = "from_sql" THEN from_sql(buf, dec)
                                            ELSE raw_from_sql(buf, dec)
                IN  /\ arr' = IF r.ok THEN r.arr ELSE arr
                    /\ last' = Read(op, r, arr, buf, full, enc, dec, oid)

\* the decoder run on the buffers of any sender, whole or cut short
DecodeSent(op) ==
    /\ Running
    /\ IsArrayBase(arr)
    /\ \E kind \in {"byte", "var"}, has_null \in HasNullFlags,
          element_type \in WireOids, null_len \in NullLens,
          dec \in ElemDecoders :
        LET full == sent(arr, kind, has_null, element_type, null_len)
        IN  \E cut \in 0 .. Len(full) :
                LET buf == SubSeq(full, 1, cut)
                    r == IF op = "from_sql" THEN from_sql(buf, dec)
                                            ELSE raw_from_sql(buf, dec)
                IN  /\ arr' = IF r.ok THEN r.arr ELSE arr
                    /\ last' = Read(op, r, arr, buf, full,
                                    [kind |-> kind, fails |-> {}], dec,
                                    element_type)

FromSqlSent == DecodeSent("from_sql")

RawFromSqlSent == DecodeSent("raw_from_sql")

\* Array::<Option<T>>::from_sql(ty, &mut raw, info)
FromSql == DecodeOver("from_sql")

\* ArrayBase::<Option<T>>::raw_from_sql(&mut raw)
RawFromSql == DecodeOver("raw_from_sql")

PushBase == PushOver(Rows \cup {NoArray})

FromPartsShort == FromPartsOver(DimsOver(Lens, 0))

Init ==
    /\ arr = NoArray
    /\ last = Call("start", TRUE, NoArray, <<>>, <<>>, 0, NoArray)

\* building an array, then any sequence of wrap and push
Next ==
    \/ FromVec
    \/ FromParts
    \/ Wrap
    \/ Push

Spec == Init /\ [][Next]_vars

\* the same, and reading the array
NextIdx ==
    \/ FromVec
    \/ FromPartsShort
    \/ Wrap
    \/ PushBase
    \/ Index
    \/ Get
    \/ Slice

SpecIdx == Init /\ [][NextIdx]_vars

\* building an array, and computing the flat offset of a list of indices
NextOffset ==
    \/ FromVec
    \/ FromPartsShort
    \/ Wrap
    \/ PushBase
    \/ ShiftIdx

SpecOffset == Init /\ [][NextOffset]_vars

\* building an array, and reading and writing it through slices
NextSlice ==
    \/ FromVec
    \/ FromPartsShort
    \/ Wrap
    \/ PushBase
    \/ Get
    \/ Slice
    \/ GetMut

SpecSlice == Init /\ [][NextSlice]_vars

\* building an array that may hold None, and decoding what a sender wrote
\* for it
NextSent ==
    \/ FromVecOpt
    \/ WrapFlat
    \/ FromSqlSent
    \/ RawFromSqlSent

SpecSent == Init /\ [][NextSent]_vars

\* a one-dimensional array from from_vec, and reading it
NextVec ==
    \/ FromVec
    \/ Index
    \/ Get
    \/ Slice

SpecVec == Init /\ [][NextVec]_vars

\* arrays with lower bounds at the ends of the integer range, read with
\* indices at the ends of the integer range
NextShift ==
    \/ FromVecWide
    \/ WrapOnce
    \/ IndexWide
    \/ GetWide
    \/ SliceWide

SpecShift == Init /\ [][NextShift]_vars

\* building an array that may hold None, and encoding it
NextEnc ==
    \/ FromVecOpt
    \/ FromPartsShort
    \/ WrapFlat
    \/ PushOpt
    \/ ToSql
    \/ RawToArray

SpecEnc == Init /\ [][NextEnc]_vars

\* building an array that may hold None, and decoding its encoding
NextDec ==
    \/ FromVecOpt
    \/ FromPartsShort
    \/ WrapFlat
    \/ PushOpt
    \/ FromSql
    \/ RawFromSql

SpecDec == Init /\ [][NextDec]_vars

\* from_parts alone, over inputs that include lengths whose product
\* overflows i32
NextParts == FromPartsWide

SpecParts == Init /\ [][NextParts]_vars

(***************************************************************************)
(* Properties.                                                             *)
(***************************************************************************)
\* the mathematical product of the lengths of dims equals n (0 <= n, small):
\* a product that leaves i32 on the way is at least 2^31 in magnitude once
\* no length is 0, and cannot equal n
RECURSIVE ProductFrom(_, _, _)
ProductFrom(dims, k, acc) ==
    IF k > Len(dims) THEN [fits |-> TRUE, val |-> acc]
    ELSE IF mul_overflows(acc, dims[k].len) THEN [fits |-> FALSE, val |-> 0]
    ELSE ProductFrom(dims, k + 1, acc * dims[k].len)

ProductEquals(dims, n) ==
    IF \E k \in 1 .. Len(dims) : dims[k].len = 0 THEN n = 0
    ELSE LET p == ProductFrom(dims, 1, 1) IN p.fits /\ p.val = n

SizeInvariant(a) ==
    \/ a.dims = <<>> /\ a.data = <<>>
    \/ ProductEquals(a.dims, Len(a.data))

\* C1: in every state reached by building an array with from_parts or
\* from_vec and then applying wrap and push, either dims and data are both
\* empty or data.len() is the product of the dimension lengths.
C1_SizeInvariantKept == Running => SizeInvariant(arr)

\* C2: from_parts fails exactly when data.len() differs from the product of
\* the dimension lengths, except that empty data with empty dims succeeds.
C2_FromPartsFailsIffSizeDiffers ==
    last.op = "from_parts" =>
        (last.ok <=> \/ last.data = <<>> /\ last.dims = <<>>
                     \/ ProductEquals(last.dims, Len(last.data)))

\* C3: from_parts with an empty dimension list and non-empty data fails,
\* whatever the length of the data.
C3_EmptyDimsWithDataFails ==
    (last.op = "from_parts" /\ last.dims = <<>> /\ last.data # <<>>)
        => ~ last.ok

\* C4: when from_parts accepts (data, dims), dimensions() is dims, and both
\* iteration and into_inner yield data in the given order.
C4_FromPartsKeepsParts ==
    (last.op = "from_parts" /\ last.ok) =>
        /\ dimensions(arr) = last.dims
        /\ iter(arr) = last.data
        /\ into_inner(arr) = last.data

C4_Witness ==
    /\ last.op = "from_parts" /\ last.ok
    /\ Len(last.dims) = 2 /\ last.dims[1] # last.dims[2]
    /\ Len(last.data) = 2 /\ last.data[1] # last.data[2]

\* C5: wrap(lower_bound) succeeds, puts {len: 1, lower_bound} at position 0,
\* keeps every earlier dimension, in order, one position further out, and
\* keeps data.
C5_WrapPrependsUnitDimension ==
    last.op = "wrap" =>
        /\ last.ok
        /\ Len(arr.dims) = Len(last.pre.dims) + 1
        /\ arr.dims[1] = [len |-> 1, lower_bound |-> last.lb]
        /\ \A k \in 1 .. Len(last.pre.dims) : arr.dims[k + 1] = last.pre.dims[k]
        /\ arr.data = last.pre.data

C5_Witness ==
    /\ last.op = "wrap" /\ last.lb = -1
    /\ Len(last.pre.dims) = 2 /\ last.pre.dims[1] # last.pre.dims[2]
    /\ Len(last.pre.data) = 2

\* C6: a push that succeeds adds exactly 1 to dims[0].len, changes no other
\* dimension and no lower bound, keeps the earlier elements in place and
\* appends other's elements after them in other's order.
C6_PushAppendsRow ==
    (last.op = "push" /\ last.ok) =>
        /\ Len(arr.dims) = Len(last.pre.dims)
        /\ arr.dims[1].len = last.pre.dims[1].len + 1
        /\ arr.dims[1].lower_bound = last.pre.dims[1].lower_bound
        /\ \A k \in 2 .. Len(arr.dims) : arr.dims[k] = last.pre.dims[k]
        /\ Len(arr.data) = Len(last.pre.data) + Len(last.other.data)
        /\ \A k \in 1 .. Len(last.pre.data) : arr.data[k] = last.pre.data[k]
        /\ \A k \in 1 .. Len(last.other.data) :
               arr.data[Len(last.pre.data) + k] = last.other.data[k]

C6_Witness ==
    /\ last.op = "push" /\ last.ok
    /\ Len(last.pre.dims) = 2
    /\ Len(last.pre.data) = 2 /\ Len(last.other.data) = 2
    /\ last.other.data[1] # last.other.data[2]
    /\ last.other.data # last.pre.data

\* other.dims is self.dims with the first dimension removed
SameShapeAsRow(a, other) ==
    /\ Len(a.dims) >= 1
    /\ other.dims = SubSeq(a.dims, 2, Len(a.dims))

\* C7: push fails whenever other.dims is not self.dims[1..] (another count,
\* a differing length or a differing lower bound), and a push that fails
\* leaves the receiving array as it was.
C7_PushRejectsOtherShape ==
    last.op = "push" =>
        /\ ~ SameShapeAsRow(last.pre, last.other) => ~ last.ok
        /\ ~ last.ok => arr = last.pre

\* a push refused for a lower bound alone
C7_Witness ==
    /\ last.op = "push" /\ ~ last.ok
    /\ Len(last.pre.dims) = 2 /\ Len(last.other.dims) = 1
    /\ last.other.dims[1].len = last.pre.dims[2].len
    /\ last.other.dims[1].lower_bound # last.pre.dims[2].lower_bound
    /\ last.pre.data # <<>>

\* C8: from_vec(data, L) succeeds with the one dimension {len: data.len(),
\* lower_bound: L}; on that array index L + k returns data[k] for
\* 0 <= k < N, and every index below L or above L + N - 1 fails.
C8_FromVecIndexedFromLowerBound ==
    /\ last.op = "from_vec" =>
        /\ last.ok
        /\ arr.dims = <<[len |-> Len(last.data), lower_bound |-> last.lb]>>
        /\ arr.data = last.data
    /\ (last.op \in {"index", "get"} /\ Len(last.idx) = 1) =>
        LET L == last.pre.dims[1].lower_bound
            N == Len(last.pre.data)
            i == last.idx[1]
        IN  IF L <= i /\ ~ sub_overflows(i, L) /\ i - L <= N - 1
            THEN last.ok /\ last.val = last.pre.data[i - L + 1]
            ELSE ~ last.ok

\* the last element of a vector with a negative lower bound, read by get
C8_Witness ==
    /\ last.op = "get" /\ last.ok
    /\ last.pre.dims = <<[len |-> 2, lower_bound |-> -1]>>
    /\ last.idx = <<0>>
    /\ last.pre.data[1] # last.pre.data[2]
    /\ last.val = last.pre.data[2]

\* the indices address one element each: as many as dimensions, each within
\* its axis
InRange(dims, indices) ==
    /\ Len(indices) = Len(dims)
    /\ \A k \in 1 .. Len(dims) :
        /\ dims[k].lower_bound <= indices[k]
        /\ indices[k] <= dims[k].lower_bound + dims[k].len - 1

\* the product of the lengths of the dimensions after dimension k
RECURSIVE InnerSize(_, _)
InnerSize(dims, k) ==
    IF k >= Len(dims) THEN 1 ELSE dims[k + 1].len * InnerSize(dims, k + 1)

\* the row-major position: the sum over k of
\* (i_k - lower_bound_k) * InnerSize(k), for the dimensions from k on
RECURSIVE FlatPosition(_, _, _)
FlatPosition(dims, indices, k) ==
    IF k > Len(dims) THEN 0
    ELSE (indices[k] - dims[k].lower_bound) * InnerSize(dims, k)
             + FlatPosition(dims, indices, k + 1)

\* C9: for any multi-index with every i_k inside its axis, indexing returns
\* the element at the row-major position, the first dimension varying
\* slowest.
C9_IndexIsRowMajor ==
    (last.op \in {"index", "get"} /\ InRange(last.pre.dims, last.idx)) =>
        LET pos == FlatPosition(last.pre.dims, last.idx, 1)
        IN  /\ last.ok
            /\ pos < Len(last.pre.data)
            /\ last.val = last.pre.data[pos + 1]

\* some index is outside its axis: below the lower bound, or at or above
\* lower bound + length (an index further from the lower bound than the
\* integers reach is above it)
OutOfRange(dims, indices) ==
    \E k \in 1 .. Len(indices) :
        /\ k <= Len(dims)
        /\ \/ indices[k] < dims[k].lower_bound
           \/ sub_overflows(indices[k], dims[k].lower_bound)
           \/ indices[k] - dims[k].lower_bound >= dims[k].len

\* C10: an element or slice access fails whenever the index given for some
\* axis is below the lower bound of that axis or at or above lower bound +
\* length, also when the flat offset would fall inside the data.
C10_OutOfRangeIndexFails ==
    (last.op \in {"index", "get", "slice"}
        /\ OutOfRange(last.pre.dims, last.idx)) => ~ last.ok

\* an index past the end of the inner axis of a 2 x 2 array, whose row-major
\* offset is the first element of the second row
C10_Witness ==
    /\ last.op = "get" /\ ~ last.ok
    /\ Len(last.pre.dims) = 2 /\ Len(last.pre.data) = 4
    /\ last.pre.dims[1].len = 2 /\ last.pre.dims[2].len = 2
    /\ last.idx = <<last.pre.dims[1].lower_bound,
                    last.pre.dims[2].lower_bound + 2>>

\* C11: an access resolves one index per dimension.  a[indices] fails when
\* the number of indices is not dims.len(); slice(..)..get(i) fails unless
\* it gives one index per dimension, so get on an array or slice that has
\* more than one dimension fails; slice(..)..slice(i) fails when it gives
\* as many indices as there are dimensions or more, so slice on an array or
\* slice that has one dimension fails.
C11_OneIndexPerDimension ==
    /\ (last.op \in {"index", "get"} /\ Len(last.idx) # Len(last.pre.dims))
           => ~ last.ok
    /\ (last.op = "slice" /\ Len(last.idx) >= Len(last.pre.dims))
           => ~ last.ok

\* get with one index, inside the outer axis, on an array of two dimensions
C11_Witness ==
    /\ last.op = "get" /\ ~ last.ok
    /\ Len(last.pre.dims) = 2 /\ Len(last.pre.data) = 4
    /\ last.idx = <<last.pre.dims[1].lower_bound>>

\* the call was an encoding, or a decoding
Encoding == last.op \in {"to_sql", "raw_to_array"}

Decoding == last.op \in {"from_sql", "raw_from_sql"}

\* the buffer decoded is a complete encoding, not one cut short
WholeBuffer == last.wire.bytes = last.wire.full

\* the number of elements the dimensions of an encoding declare
DeclaredCount(dims) ==
    IF dims = <<>> THEN 0 ELSE ProductFrom(dims, 1, 1).val

\* the encoding of `a` holds as many element entries as it declares
DeclaresItsElements(a) ==
    /\ IsArrayBase(a)
    /\ Len(a.data) = DeclaredCount(a.dims)

\* C12: for every array built by from_parts or from_vec, wrap and push, and
\* an element codec that round-trips, decode(encode(a)) succeeds and is a:
\* the same dimensions, lower bounds included, and the same elements in the
\* same order.
C12_RoundTrip ==
    (Decoding /\ WholeBuffer /\ RoundTrips(last.wire.enc, last.wire.dec)) =>
        /\ last.ok
        /\ arr = last.pre

\* the round trip of the arrays whose encoding holds the elements it declares
RoundTripOfDeclaredElements ==
    (Decoding /\ WholeBuffer /\ RoundTrips(last.wire.enc, last.wire.dec)
        /\ DeclaresItsElements(last.pre)) =>
        /\ last.ok
        /\ arr = last.pre

\* the element entries of a buffer, from position pos on, are those of the
\* elements of data from k on: length -1 and nothing for None, the number of
\* bytes and then the bytes of the element encoder for any other; and the
\* buffer ends with the last entry
RECURSIVE EntriesAt(_, _, _, _, _)
EntriesAt(bytes, pos, data, k, kind) ==
    IF k > Len(data) THEN pos = Len(bytes)
    ELSE LET len == read_i32(bytes, pos)
             payload == element_bytes(kind, data[k])
         IN  /\ len.ok
             /\ IF data[k] = None
                THEN /\ len.val = -1
                     /\ EntriesAt(bytes, pos + 4, data, k + 1, kind)
                ELSE /\ len.val = Len(payload)
                     /\ pos + 4 + Len(payload) <= Len(bytes)
                     /\ SubSeq(bytes, pos + 5, pos + 4 + Len(payload)) = payload
                     /\ EntriesAt(bytes, pos + 4 + Len(payload), data, k + 1,
                                  kind)

\* C13: for an array mixing present and null elements, encode writes length
\* -1 and no payload for each null element, and for each present element the
\* number of its bytes and then exactly the bytes its encoder wrote; decoding
\* the result gives null at exactly the positions that were null and the
\* present values at all others.
C13_NullsRoundTrip ==
    /\ (Encoding /\ last.ok /\ ~ last.wire.refused) =>
           EntriesAt(last.wire.bytes, 12 + 8 * Len(last.pre.dims),
                     last.pre.data, 1, last.wire.enc.kind)
    /\ (Decoding /\ WholeBuffer /\ RoundTrips(last.wire.enc, last.wire.dec)
           /\ (\E k \in 1 .. Len(last.pre.data) : last.pre.data[k] = None)
           /\ (\E k \in 1 .. Len(last.pre.data) : last.pre.data[k] # None)) =>
           /\ last.ok
           /\ Len(arr.data) = Len(last.pre.data)
           /\ \A k \in 1 .. Len(last.pre.data) : arr.data[k] = last.pre.data[k]

C15_TruncatedBufferIsAnError ==
    (Decoding /\ DeclaresItsElements(last.pre)
        /\ Len(last.wire.bytes) < Len(last.wire.full)) =>
        /\ ~ last.ok
        /\ last.wire.err \in {"io", "element", "conversion", "bad data"}
        /\ last.wire.pos <= Len(last.wire.bytes)
        /\ \A j \in 1 .. Len(last.wire.handed) :
               Len(last.wire.handed[j]) <= Len(last.wire.bytes)

\* the last byte of the payload of the last element is cut off, and the
\* element decoder reads what it is handed
C15_Witness ==
    /\ last.op = "from_sql" /\ ~ last.ok
    /\ DeclaresItsElements(last.pre)
    /\ Len(last.pre.data) = 2 /\ last.pre.data[2] = 2
    /\ last.wire.enc.kind = "var" /\ last.wire.dec = "to_end"
    /\ Len(last.wire.bytes) = Len(last.wire.full) - 1

\* the payloads of the elements of data that are not None, from k on
RECURSIVE PayloadsOf(_, _, _)
PayloadsOf(data, k, kind) ==
    IF k > Len(data) THEN <<>>
    ELSE IF data[k] = None THEN PayloadsOf(data, k + 1, kind)
    ELSE <<element_bytes(kind, data[k])>> \o PayloadsOf(data, k + 1, kind)

\* C16: for each element that is not null the element decoder is handed
\* exactly the declared payload bytes and no byte of a later element; when
\* it returns having read fewer than declared, decode returns the error of
\* unread bytes, which is not the error of a short buffer, and no array.
C16_DecoderGetsDeclaredBytes ==
    /\ (Decoding /\ WholeBuffer /\ DeclaresItsElements(last.pre) /\ last.ok) =>
           last.wire.handed = PayloadsOf(last.pre.data, 1, last.wire.enc.kind)
    /\ (Decoding /\ last.wire.dec = "exact"
           /\ \E j \in 1 .. Len(last.wire.handed) :
                  Len(last.wire.handed[j]) > 1) =>
           /\ ~ last.ok
           /\ last.wire.err =
                  (IF last.op = "from_sql" THEN "conversion" ELSE "bad data")
           /\ last.wire.err # "io"
           /\ arr = last.pre

\* two present elements of different widths, read back whole
C16_Witness ==
    /\ last.op = "from_sql" /\ last.ok /\ WholeBuffer
    /\ last.pre.data = <<2, 1>>
    /\ last.wire.enc.kind = "var" /\ last.wire.dec = "to_end"
    /\ last.wire.handed = <<<<2, 2>>, <<1>>>>

\* the dimension entries of a buffer, from dimension k on
RECURSIVE DimensionsAt(_, _, _)
DimensionsAt(bytes, dims, k) ==
    IF k > Len(dims) THEN TRUE
    ELSE /\ read_i32(bytes, 12 + 8 * (k - 1)).val = dims[k].len
         /\ read_i32(bytes, 16 + 8 * (k - 1)).val = dims[k].lower_bound
         /\ DimensionsAt(bytes, dims, k + 1)

\* C17: encode writes, in this order and nothing else: the number of
\* dimensions; the has-null flag, always 1; the oid of the element type
\* handle; the length and the lower bound of each dimension in the array's
\* order; one entry per element in the order of iteration.
C17_EncodeLayout ==
    (Encoding /\ last.ok /\ ~ last.wire.refused) =>
        /\ Len(last.wire.bytes) >= 12 + 8 * Len(last.pre.dims)
        /\ read_i32(last.wire.bytes, 0).val = Len(last.pre.dims)
        /\ read_i32(last.wire.bytes, 4).val = 1
        /\ read_i32(last.wire.bytes, 8).val = last.wire.oid
        /\ DimensionsAt(last.wire.bytes, last.pre.dims, 1)
        /\ EntriesAt(last.wire.bytes, 12 + 8 * Len(last.pre.dims),
                     iter(last.pre), 1, last.wire.enc.kind)

\* an array of two dimensions without a null element, and the oid of text
C17_Witness ==
    /\ last.op = "to_sql" /\ last.ok
    /\ Len(last.pre.dims) = 2 /\ last.pre.dims[1].lower_bound = -1
    /\ last.pre.data = <<1, 2, 2, 1>>
    /\ last.wire.oid = 25

\* C18: when the element encoder returns an error for an element, encode
\* returns that error and not a success; and encode fails in no other way
\* than by a write the writer refuses.
C18_ElementErrorIsReturned ==
    Encoding =>
        /\ last.wire.refused => (~ last.ok /\ last.wire.err = "element")
        /\ (~ last.ok /\ ~ last.wire.refused) =>
               (last.wire.err = "write" /\ last.wire.room # NoLimit)

\* C19: in every array reached through from_parts, from_vec, wrap, push or
\* decode every dimension has a length >= 0; from_parts accepts no dimension
\* list with a negative length, also when the product of the lengths is
\* data.len().
C19_LengthsNotNegative ==
    (last.ok /\ last.op # "start") =>
        \A k \in 1 .. Len(arr.dims) : arr.dims[k].len >= 0

\* whether shifting an access's indices overflows: some index minus the
\* lower bound of its axis lies outside the integer width
ShiftOverflows ==
    \E k \in 1 .. Len(last.idx) :
        /\ k <= Len(last.pre.dims)
        /\ sub_overflows(last.idx[k], last.pre.dims[k].lower_bound)

\* C20: an access whose index minus the lower bound of its axis overflows
\* the integer width fails: the shift computes index - lower_bound and
\* never wraps around to an offset inside the axis
C20_OverflowingShiftFails ==
    (last.op \in {"index", "get", "slice"} /\ ShiftOverflows) => ~last.ok

\* the offset the fold is said to leave at dimension k: the shifted index
\* plus the stride times the offset of the deeper level, the stride being
\* the product of the lengths of the dimensions after k
RECURSIVE ScaledDeeperOffset(_, _, _)
ScaledDeeperOffset(dims, indices, k) ==
    IF k > Len(dims) THEN 0
    ELSE (indices[k] - dims[k].lower_bound)
             + InnerSize(dims, k) * ScaledDeeperOffset(dims, indices, k + 1)

\* C21 as stated: on indices inside their axes the running offset becomes
\* shifted index + stride * running offset of the deeper level
C21_OffsetScalesDeeperLevel ==
    (last.op = "shift_idx" /\ last.ok
        /\ InRange(last.pre.dims, last.idx)) =>
        last.val = ScaledDeeperOffset(last.pre.dims, last.idx, 1)

\* C21: the flat offset of a multi-index is a fold over the dimensions from
\* the innermost to the outermost: at each step the running offset becomes
\* the running offset of the deeper level + shifted index * stride, and the
\* stride is the product of the lengths of the dimensions visited so far.
C21_OffsetFoldsShiftedTimesStride ==
    (last.op = "shift_idx" /\ last.ok) =>
        /\ InRange(last.pre.dims, last.idx)
        /\ last.val = FlatPosition(last.pre.dims, last.idx, 1)

\* an offset on an array of two dimensions, the inner one longer than 1,
\* with different shifted indices on the two axes
C21_Witness ==
    /\ last.op = "shift_idx" /\ last.ok
    /\ Len(last.pre.dims) = 2
    /\ last.pre.dims[2].len = 2
    /\ last.idx[1] = last.pre.dims[1].lower_bound
    /\ last.idx[2] = last.pre.dims[2].lower_bound + 1
    /\ last.val = 1

\* what an access through slices is to do on the array `a` with indices
\* inside their axes: get returns the element at the row-major position, a
\* write through get_mut replaces that element and nothing else
SliceAccessIsRowMajor(a) ==
    LET pos == FlatPosition(last.pre.dims, last.idx, 1)
    IN  /\ last.op = "get" =>
            /\ last.ok
            /\ pos < Len(last.pre.data)
            /\ last.val = last.pre.data[pos + 1]
        /\ last.op = "get_mut" =>
            /\ last.ok
            /\ pos < Len(last.pre.data)
            /\ a.dims = last.pre.dims
            /\ a.data = [last.pre.data EXCEPT ![pos + 1] = last.val]

\* C22: on an array of n dimensions slice(i_0).slice(i_1)...get(i_{n-1})
\* returns data[sum over k of (i_k - lower_bound_k) * product of length_j
\* for j > k]; each slice reports the dimensions of its parent without the
\* first; a write through slice_mut(...).get_mut(...) changes that one
\* element, and no other element and no dimension.
C22_SlicesResolveRowMajor ==
    /\ (last.op \in {"get", "get_mut"}
            /\ InRange(last.pre.dims, last.idx)) =>
           SliceAccessIsRowMajor(arr)
    /\ (last.op = "slice" /\ last.ok) =>
           last.dims = SubSeq(last.pre.dims, Len(last.idx) + 1,
                              Len(last.pre.dims))
    /\ (last.op = "get_mut" /\ ~ last.ok) => arr = last.pre

\* the same on the arrays whose data is as long as their dimensions say
SlicesResolveRowMajorOfSizedArrays ==
    (last.op \in {"get", "slice", "get_mut"} /\ SizeInvariant(last.pre)) =>
        C22_SlicesResolveRowMajor

\* the buffer with other values in its has-null flag (bytes 5 to 8) and its
\* element type (bytes 9 to 12), as far as the buffer reaches
WithHeaderFields(buf, has_null, element_type) ==
    [k \in 1 .. Len(buf) |->
        IF k \in 5 .. 8 THEN write_be(has_null)[k - 4]
        ELSE IF k \in 9 .. 12 THEN write_be(element_type)[k - 8]
        ELSE buf[k]]

\* the values tried in the two header fields
OtherFlags == {-1, 0, 1}

OtherOids == {0, 25}

\* the decoder of the last call, run on another buffer
DecodedAgain(buf) ==
    IF last.op = "from_sql" THEN from_sql(buf, last.wire.dec)
                            ELSE raw_from_sql(buf, last.wire.dec)

\* the element entries of a buffer from position pos on, against the
\* elements decoded from k on: an element is None exactly when its length
\* is negative, and then the next entry starts right after the length; the
\* value is the position after the last entry, or -1 when an entry differs
RECURSIVE NullEntriesEnd(_, _, _, _)
NullEntriesEnd(bytes, pos, data, k) ==
    IF k > Len(data) THEN pos
    ELSE LET len == read_i32(bytes, pos)
         IN  IF ~ len.ok THEN -1
             ELSE IF (data[k] = None) # (len.val < 0) THEN -1
             ELSE NullEntriesEnd(bytes,
                                 pos + 4 + (IF len.val < 0 THEN 0 ELSE len.val),
                                 data, k + 1)

\* C23: the result of decode does not depend on the has-null flag or on the
\* element type in the buffer: the buffer with any other values in those
\* two fields decodes, with the same element decoder, to the same array or
\* the same error; a decoded element is null exactly when its 4-byte
\* length is negative, and no payload byte is consumed for it.
C23_HeaderFieldsIgnored ==
    Decoding =>
        /\ \A has_null \in OtherFlags, element_type \in OtherOids :
               LET r == DecodedAgain(WithHeaderFields(last.wire.bytes,
                                                      has_null, element_type))
               IN  /\ r.ok = last.ok
                   /\ r.err = last.wire.err
                   /\ r.ok => r.arr = arr
                   /\ r.pos = last.wire.pos
                   /\ r.handed = last.wire.handed
        /\ last.ok =>
               NullEntriesEnd(last.wire.bytes, 12 + 8 * Len(arr.dims),
                              arr.data, 1) = last.wire.pos

\* a buffer whose has-null flag is 0 and whose first element is null with
\* length -2, the second element present, decoded whole
C23_Witness ==
    /\ last.op = "from_sql" /\ last.ok
    /\ last.wire.bytes = last.wire.full
    /\ SubSeq(last.wire.bytes, 5, 8) = <<0, 0, 0, 0>>
    /\ Len(arr.data) = 2
    /\ arr.data[1] = None /\ arr.data[2] # None
    /\ SubSeq(last.wire.bytes, 21, 24) = write_be(-2)

====
